---- MODULE Spec2Model ----
(***************************************************************************)
(* Model of the authenticated request layer of mcpx-cli (src/main.go,      *)
(* first 1163 lines): the credential file, loadAuthConfig / saveAuthConfig *)
(* / clearAuthConfig, makeRequest, login / logout and the mutating         *)
(* operations PublishServer, UpdateServer and DeleteServer.                *)
(*                                                                         *)
(* A Go string is a sequence of text atoms: "a", "b", "t" and "anonymous"  *)
(* stand for runs of plain ASCII, "<" is the HTML-sensitive character,     *)
(* "uFFFD" the replacement rune and "xFF" a byte that is not valid UTF-8.  *)
(* Time is in seconds.                                                     *)
(***************************************************************************)
EXTENDS Integers, Sequences, FiniteSets, TLC

VARIABLES
    now,        \* time.Now().Unix()
    file,       \* <home>/.mcpx-cli-config.json
    cli,        \* the running invocation of each process: its locals
    stored,     \* history: the credential of the last save that completed,
                \* valid while nothing has touched the file since
    lastWriter, \* history: the process that wrote to the file last
    session     \* history: "out" since a logout succeeded, "out_dirty" once
                \* a save has touched the file after it, "in" since a save
                \* completed, "none" before any of these

vars == <<now, file, cli, stored, lastWriter, session>>

Procs == {1, 2}

StartTime == 1000
MaxNow == 1090
TickStep == 30
Hour == 3600
Buffer == 60

AuthMethodGitHubOAuth == "github-oauth"
AuthMethodGitHubOIDC == "github-oidc"
AuthMethodAnonymous == "anonymous"
AuthMethodDNS == "dns"
AuthMethodHTTP == "http"

(***************************************************************************)
(* encoding/json, as far as AuthConfig and TokenResponse use it            *)
(***************************************************************************)

\* AuthConfig{}
ZeroConfig == [Token |-> <<>>, Method |-> <<>>, Domain |-> <<>>, ExpiresAt |-> 0]

\* the encoder's form of one atom of a string (HTML escaping is on)
Quote1(ch) ==
    CASE ch = "<" -> "\\u003c"
      [] ch = "xFF" -> "\\ufffd"
      [] OTHER -> ch

\* the decoder's reading of one atom of a JSON string
Unquote1(w) ==
    CASE w = "\\u003c" -> "<"
      [] w = "\\ufffd" -> "uFFFD"
      [] w = "xFF" -> "uFFFD"
      [] OTHER -> w

Quote(s) == [i \in 1..Len(s) |-> Quote1(s[i])]

Unquote(w) == [i \in 1..Len(w) |-> Unquote1(w[i])]

\* one unit of JSON text: a member key, one atom of a string value, the
\* number of expires_at, or the closing brace
Unit(k, c, n) == [k |-> k, c |-> c, n |-> n]

StrMember(k, s) ==
    <<Unit(k, "", 0)>> \o [i \in 1..Len(s) |-> Unit("chr", Quote1(s[i]), 0)]

\* Marshal with expires_at left out of the output
Marshal_noExpiresAt(config) ==
    StrMember("token", config.Token)
      \o StrMember("method", config.Method)
      \o (IF config.Domain # <<>> THEN StrMember("domain", config.Domain) ELSE <<>>)
      \o <<Unit("}", "", 0)>>

\* json.MarshalIndent(config, "", "  ") with the tags of AuthConfig
Marshal(config) ==
    StrMember("token", config.Token)
      \o StrMember("method", config.Method)
      \o (IF config.Domain # <<>> THEN StrMember("domain", config.Domain) ELSE <<>>)
      \o (IF config.ExpiresAt # 0
          THEN <<Unit("expires_at", "", config.ExpiresAt)>> ELSE <<>>)
      \o <<Unit("}", "", 0)>>

StringKeys == {"token", "method", "domain"}

SetField(acc, k, v) ==
    CASE k = "token" -> [acc EXCEPT !.Token = v]
      [] k = "method" -> [acc EXCEPT !.Method = v]
      [] k = "domain" -> [acc EXCEPT !.Domain = v]
      [] OTHER -> acc

GetField(acc, k) ==
    CASE k = "token" -> acc.Token
      [] k = "method" -> acc.Method
      [] k = "domain" -> acc.Domain
      [] OTHER -> <<>>

RECURSIVE Decode(_, _, _, _)
\* the decoder's pass over the text from unit i on, cur the string member
\* being read, acc the struct filled so far
Decode(data, i, cur, acc) ==
    IF i > Len(data) THEN [ok |-> FALSE, config |-> ZeroConfig]
    ELSE LET u == data[i] IN
         IF u.k = "}"
         THEN IF i = Len(data) THEN [ok |-> TRUE, config |-> acc]
              ELSE [ok |-> FALSE, config |-> ZeroConfig]
         ELSE IF u.k = "chr"
         THEN IF cur \in StringKeys
              THEN Decode(data, i + 1, cur,
                          SetField(acc, cur, Append(GetField(acc, cur), Unquote1(u.c))))
              ELSE [ok |-> FALSE, config |-> ZeroConfig]
         ELSE IF u.k \in StringKeys
         THEN Decode(data, i + 1, u.k, SetField(acc, u.k, <<>>))
         ELSE Decode(data, i + 1, "", [acc EXCEPT !.ExpiresAt = u.n])

\* json.Unmarshal(data, &config): a syntax error leaves config untouched
Unmarshal(data) == Decode(data, 1, "", ZeroConfig)

(***************************************************************************)
(* The credential file                                                     *)
(***************************************************************************)

NoFile == [exists |-> FALSE, data |-> <<>>, readable |-> TRUE, mode |-> 0]

\* permission bits: owner-only read/write, and owner read/write with read
\* for group and others
Perm0600 == 384

Perm0644 == 420

\* OpenFile with O_CREATE|O_TRUNC and permission perm on file f: perm is
\* given to a file the call creates, a file that exists keeps its mode
OpenTrunc(f, perm) ==
    IF f.exists THEN [f EXCEPT !.data = <<>>]
    ELSE [exists |-> TRUE, data |-> <<>>, readable |-> TRUE, mode |-> perm]

\* what a write of data at offset 0 leaves in a file that held old
Overlay(old, data) == data \o SubSeq(old, Len(data) + 1, Len(old))

\* the expiry test of loadAuthConfig
Expired(config, t) == config.ExpiresAt > 0 /\ t > config.ExpiresAt

\* loadAuthConfig that removes the file of an expired credential
loadAuthConfig_removesExpired(f, t) ==
    IF ~f.exists THEN [config |-> ZeroConfig, err |-> "nil", file |-> f]
    ELSE IF ~f.readable
    THEN [config |-> ZeroConfig, err |-> "failed to read config", file |-> f]
    ELSE LET r == Unmarshal(f.data) IN
         IF ~r.ok
         THEN [config |-> r.config, err |-> "failed to unmarshal config", file |-> f]
         ELSE IF Expired(r.config, t)
         THEN [config |-> ZeroConfig, err |-> "nil", file |-> NoFile]
         ELSE [config |-> r.config, err |-> "nil", file |-> f]

\* loadAuthConfig without the os.IsNotExist test
loadAuthConfig_missingIsError(f, t) ==
    IF ~f.exists \/ ~f.readable
    THEN [config |-> ZeroConfig, err |-> "failed to read config", file |-> f]
    ELSE LET r == Unmarshal(f.data) IN
         IF ~r.ok
         THEN [config |-> r.config, err |-> "failed to unmarshal config", file |-> f]
         ELSE IF Expired(r.config, t)
         THEN [config |-> ZeroConfig, err |-> "nil", file |-> f]
         ELSE [config |-> r.config, err |-> "nil", file |-> f]

\* loadAuthConfig with no expiry test
loadAuthConfig_ignoresExpiry(f, t) ==
    IF ~f.exists THEN [config |-> ZeroConfig, err |-> "nil", file |-> f]
    ELSE IF ~f.readable
    THEN [config |-> ZeroConfig, err |-> "failed to read config", file |-> f]
    ELSE LET r == Unmarshal(f.data) IN
         IF ~r.ok
         THEN [config |-> r.config, err |-> "failed to unmarshal config", file |-> f]
         ELSE [config |-> r.config, err |-> "nil", file |-> f]

\* loadAuthConfig at time t on file f: the two results, and the file as the
\* call leaves it (the call only reads)
loadAuthConfig(f, t) ==
    IF ~f.exists THEN [config |-> ZeroConfig, err |-> "nil", file |-> f]
    ELSE IF ~f.readable
    THEN [config |-> ZeroConfig, err |-> "failed to read config", file |-> f]
    ELSE LET r == Unmarshal(f.data) IN
         IF ~r.ok
         THEN [config |-> r.config, err |-> "failed to unmarshal config", file |-> f]
         ELSE IF Expired(r.config, t)
         THEN [config |-> ZeroConfig, err |-> "nil", file |-> f]
         ELSE [config |-> r.config, err |-> "nil", file |-> f]

\* clearAuthConfig without the os.IsNotExist test
clearAuthConfig_missingIsError(f, removed) ==
    IF f.exists /\ removed THEN [err |-> "nil", file |-> NoFile]
    ELSE [err |-> "failed to remove config file", file |-> f]

\* clearAuthConfig that reports success and leaves the file
clearAuthConfig_keepsFile(f, removed) == [err |-> "nil", file |-> f]

\* clearAuthConfig: os.Remove, where removed says whether the removal of an
\* existing file went through
clearAuthConfig(f, removed) ==
    IF ~f.exists THEN [err |-> "nil", file |-> f]
    ELSE IF removed THEN [err |-> "nil", file |-> NoFile]
    ELSE [err |-> "failed to remove config file", file |-> f]

(***************************************************************************)
(* makeRequest and the server's answers                                    *)
(***************************************************************************)

\* makeRequest that removes a credential file it got no token from
makeRequest_dropsStale(method, endpoint, hasBody, token, f, t) ==
    LET ld == loadAuthConfig(f, t)
        config == IF token # <<>> THEN ZeroConfig ELSE ld.config
    IN  [req |-> [method |-> method, endpoint |-> endpoint,
                  hasBody |-> hasBody,
                  contentType |-> hasBody,
                  authorization |-> IF token # <<>> THEN token ELSE config.Token,
                  userAgent |-> "mcpx-cli/1.0"],
         loaded |-> (token = <<>>),
         config |-> config,
         loadErr |-> IF token # <<>> THEN "nil" ELSE ld.err,
         file |-> IF token # <<>> THEN f
                  ELSE IF config.Token = <<>> THEN NoFile ELSE ld.file]

\* makeRequest that sets Content-Type on every request
makeRequest_alwaysContentType(method, endpoint, hasBody, token, f, t) ==
    LET ld == loadAuthConfig(f, t)
        config == IF token # <<>> THEN ZeroConfig ELSE ld.config
    IN  [req |-> [method |-> method, endpoint |-> endpoint,
                  hasBody |-> hasBody,
                  contentType |-> TRUE,
                  authorization |-> IF token # <<>> THEN token ELSE config.Token,
                  userAgent |-> "mcpx-cli/1.0"],
         loaded |-> (token = <<>>),
         config |-> config,
         loadErr |-> IF token # <<>> THEN "nil" ELSE ld.err,
         file |-> IF token # <<>> THEN f ELSE ld.file]

\* makeRequest that prefers the stored token to the explicit one
makeRequest_storedFirst(method, endpoint, hasBody, token, f, t) ==
    LET ld == loadAuthConfig(f, t)
    IN  [req |-> [method |-> method, endpoint |-> endpoint,
                  hasBody |-> hasBody,
                  contentType |-> hasBody,
                  authorization |-> IF ld.config.Token # <<>>
                                    THEN ld.config.Token ELSE token,
                  userAgent |-> "mcpx-cli/1.0"],
         loaded |-> TRUE,
         config |-> ld.config,
         loadErr |-> ld.err,
         file |-> ld.file]

\* makeRequest up to httpClient.Do: the request it builds, and what the
\* load it may do returned
makeRequest(method, endpoint, hasBody, token, f, t) ==
    LET ld == loadAuthConfig(f, t)
        config == IF token # <<>> THEN ZeroConfig ELSE ld.config
    IN  [req |-> [method |-> method, endpoint |-> endpoint,
                  hasBody |-> hasBody,
                  contentType |-> hasBody,
                  authorization |-> IF token # <<>> THEN token ELSE config.Token,
                  userAgent |-> "mcpx-cli/1.0"],
         loaded |-> (token = <<>>),
         config |-> config,
         loadErr |-> IF token # <<>> THEN "nil" ELSE ld.err,
         file |-> IF token # <<>> THEN f ELSE ld.file]

Reply(neterr, status, kind, token, exp) ==
    [neterr |-> neterr, status |-> status, kind |-> kind,
     token |-> token, expires_at |-> exp, body |-> <<>>]

\* answers of the registry to a request of an operation: a network error,
\* or a status with a body that is a JSON object with a message, the
\* missing-authorization validation error, another error object, or not JSON
Replies ==
    { Reply(TRUE, 0, "none", <<>>, 0),
      Reply(FALSE, 200, "message", <<>>, 0),
      Reply(FALSE, 200, "garbage", <<>>, 0),
      Reply(FALSE, 201, "message", <<>>, 0),
      Reply(FALSE, 204, "garbage", <<>>, 0),
      Reply(FALSE, 404, "error", <<>>, 0),
      Reply(FALSE, 422, "missing_auth", <<>>, 0),
      Reply(FALSE, 500, "error", <<>>, 0) }

\* tokens as the server may write them in a token response
WireTokens == { <<>>, <<"a">>, <<"b", "\\u003c">>, <<"xFF">> }

\* offsets from now of the expires_at a token response may give
ExpiresOffsets == {30, 90}

\* answers to POST /api/auth/anonymous at time t (expires_at 0: not given)
AuthReplies(t) ==
    { Reply(TRUE, 0, "none", <<>>, 0),
      Reply(FALSE, 500, "error", <<>>, 0),
      Reply(FALSE, 200, "garbage", <<>>, 0) }
    \cup { Reply(FALSE, 200, "token", w, e) :
             w \in WireTokens, e \in {0} \cup {t + d : d \in ExpiresOffsets} }

ExplicitTokens == { <<>>, <<"t">> }

(***************************************************************************)
(* Server payloads and their normalisation                                 *)
(***************************************************************************)

\* the struct Server, by its fields ID and Name
Server(ID, Name) == [ID |-> ID, Name |-> Name]

\* a metadata map of the payload: absent ("none"), or an object holding
\* "id" with a string ("id"), "id" with a number ("id_num"), "serverId"
\* with a string ("serverId"), or the namespaced registry object
\* "io.modelcontextprotocol.registry/official" holding "serverId"
\* ("official")
Meta(kind, value) == [kind |-> kind, value |-> value]

NoMeta == Meta("none", "")

\* a JSON value met where a server is expected: an object with its members
\* "id", "name", "server" (an object with "id" and "name"),
\* "x-io.modelcontextprotocol.registry" and "_meta", or a scalar
Elem(id, name, hasServer, serverID, serverName, xreg, meta) ==
    [isMap |-> TRUE, id |-> id, name |-> name, hasServer |-> hasServer,
     serverID |-> serverID, serverName |-> serverName,
     xreg |-> xreg, meta |-> meta]

ScalarElem == [Elem("", "", FALSE, "", "", NoMeta, NoMeta) EXCEPT !.isMap = FALSE]

\* json.Unmarshal of a JSON value into a ServerWrapper
unmarshalWrapper(e) ==
    [ok |-> e.isMap,
     Server |-> IF e.isMap /\ e.hasServer
                THEN Server(e.serverID, e.serverName) ELSE Server("", ""),
     RegistryMeta |-> IF e.isMap THEN e.xreg ELSE NoMeta]

\* json.Unmarshal of a JSON value into a Server
unmarshalServer(e) ==
    [ok |-> e.isMap,
     Server |-> IF e.isMap THEN Server(e.id, e.name) ELSE Server("", "")]

\* the server of a decoded wrapper, its ID taken from the registry metadata
\* if it has none
registryID(w) ==
    IF w.Server.ID = "" /\ w.RegistryMeta.kind = "id"
    THEN [w.Server EXCEPT !.ID = w.RegistryMeta.value]
    ELSE w.Server

\* ListServers, the decoding of the body of a 200 response whose "servers"
\* member is the array elems (empty: no such array, or an empty one)
decodeServers(elems) ==
    IF Len(elems) > 0
    THEN IF elems[1].isMap
         THEN IF elems[1].hasServer
              THEN IF \A i \in 1..Len(elems) : unmarshalWrapper(elems[i]).ok
                   THEN [i \in 1..Len(elems) |-> registryID(unmarshalWrapper(elems[i]))]
                   ELSE <<>>
              ELSE IF \A i \in 1..Len(elems) : unmarshalServer(elems[i]).ok
                   THEN [i \in 1..Len(elems) |-> unmarshalServer(elems[i]).Server]
                   ELSE <<>>
         ELSE <<>>
    ELSE <<>>

\* decodeDetail with no second attempt in the legacy format
decodeDetail_wrapperOnly(r) ==
    IF r.kind = "garbage" THEN [ok |-> FALSE, Server |-> Server("", "")]
    ELSE LET w == unmarshalWrapper(r.body[1]) IN
         IF w.ok /\ (w.Server.ID # "" \/ w.RegistryMeta.kind # "none")
         THEN [ok |-> TRUE, Server |-> registryID(w)]
         ELSE [ok |-> FALSE, Server |-> Server("", "")]

\* the decoding of the body of a 200 response to a detail request
decodeDetail(r) ==
    IF r.kind = "garbage" THEN [ok |-> FALSE, Server |-> Server("", "")]
    ELSE LET w == unmarshalWrapper(r.body[1]) IN
         IF w.ok /\ (w.Server.ID # "" \/ w.RegistryMeta.kind # "none")
         THEN [ok |-> TRUE, Server |-> registryID(w)]
         ELSE unmarshalServer(r.body[1])

\* ListServers, the detail requests from server i on, the server
\* answering request j with rs[j]: the error, the details and the number of
\* requests made
RECURSIVE fetchDetails(_, _, _, _)
fetchDetails(servers, rs, i, out) ==
    IF i > Len(servers) THEN [err |-> "nil", out |-> out, n |-> i - 1]
    ELSE IF rs[i].neterr
    THEN [err |-> "failed to get details for server", out |-> out, n |-> i]
    ELSE IF rs[i].status = 200
    THEN IF decodeDetail(rs[i]).ok
         THEN fetchDetails(servers, rs, i + 1,
                           Append(out, decodeDetail(rs[i]).Server))
         ELSE [err |-> "failed to parse detail response for server",
               out |-> out, n |-> i]
    ELSE fetchDetails(servers, rs, i + 1, Append(out, servers[i]))

\* a 200 answer to GET /v0/servers whose "servers" array is elems
ListReply(elems) ==
    [Reply(FALSE, 200, "servers", <<>>, 0) EXCEPT !.body = elems]

\* a 200 answer to GET /v0/servers/{id} whose body is the object e
DetailReply(e) ==
    [Reply(FALSE, 200, "detail", <<>>, 0) EXCEPT !.body = <<e>>]

\* a JSON object with none of the members of a server
EmptyObject == Elem("", "", FALSE, "", "", NoMeta, NoMeta)

\* a server of the registry, as the list and the detail endpoint give it
ListedElem == Elem("a", "n", FALSE, "", "", NoMeta, NoMeta)

(***************************************************************************)
(* One invocation of the CLI                                               *)
(***************************************************************************)

Cmd(op, authMethod, token, ioGithub, fileOk, jsonOutput) ==
    [op |-> op, authMethod |-> authMethod, token |-> token,
     ioGithub |-> ioGithub, fileOk |-> fileOk, jsonOutput |-> jsonOutput]

NoCmd == Cmd("none", "", <<>>, FALSE, TRUE, FALSE)

NoStored == [valid |-> FALSE, config |-> ZeroConfig]

\* the locals of a process that runs nothing
Idle ==
    [pc |-> "idle", cmd |-> NoCmd, reqs |-> <<>>, resps |-> <<>>,
     err |-> "nil", errStatus |-> 0, errBody |-> "",
     outStatus |-> 0, outBody |-> "",
     loaded |-> FALSE, config |-> ZeroConfig, loadErr |-> "nil", loadedAt |-> 0,
     seenFile |-> NoFile, seenStored |-> NoStored,
     saving |-> ZeroConfig, prev |-> NoFile, saveStarted |-> FALSE,
     detailed |-> FALSE, servers |-> <<>>]

\* the locals once the handler of cmd has returned err
Returned(l, err, errStatus, errBody) ==
    [l EXCEPT !.pc = "done", !.err = err,
              !.errStatus = errStatus, !.errBody = errBody]

\* the locals after makeRequest returned reply r to the request of mr
Sent(cmd, mr, r, t, f, st) ==
    [Idle EXCEPT !.cmd = cmd, !.reqs = <<mr.req>>, !.resps = <<r>>,
                 !.loaded = mr.loaded, !.config = mr.config,
                 !.loadErr = mr.loadErr,
                 !.loadedAt = IF mr.loaded THEN t ELSE 0,
                 !.seenFile = IF mr.loaded THEN f ELSE NoFile,
                 !.seenStored = IF mr.loaded THEN st ELSE NoStored]

Printed(l, status, body) == [l EXCEPT !.outStatus = status, !.outBody = body]

(***************************************************************************)
(* Commands                                                                *)
(***************************************************************************)

Init ==
    /\ now = StartTime
    /\ file = NoFile
    /\ cli = [p \in Procs |-> Idle]
    /\ stored = NoStored
    /\ lastWriter = 0
    /\ session = "none"

\* tokenConfig that ignores the expiration the server gives
tokenConfig_defaultExpiry(r, t) ==
    [Method |-> <<AuthMethodAnonymous>>, Token |-> Unquote(r.token),
     Domain |-> <<>>, ExpiresAt |-> t + Hour]

\* loginAnonymous, the credential it builds at time t from the decoded
\* token response r
tokenConfig(r, t) ==
    [Method |-> <<AuthMethodAnonymous>>, Token |-> Unquote(r.token),
     Domain |-> <<>>,
     ExpiresAt |-> IF r.expires_at = 0 THEN t + Hour ELSE r.expires_at]

\* loginAnonymous that removes the credential file when it fails
loginAnonymousFrom_clearsOnFailure(p, replies) ==
    /\ cli[p].pc = "idle"
    /\ \E r \in replies :
         LET cmd == Cmd("login", AuthMethodAnonymous, <<>>, FALSE, TRUE, FALSE)
             mr == makeRequest("POST", "/api/auth/anonymous", FALSE, <<>>, file, now)
             l == Sent(cmd, mr, r, now, file, stored)
             config == tokenConfig(r, now)
         IN  /\ cli' = [cli EXCEPT ![p] =
                   IF r.neterr THEN Returned(l, "failed to authenticate", 0, "")
                   ELSE IF r.status # 200
                   THEN Returned(l, "authentication failed with status", r.status, "")
                   ELSE IF r.kind = "garbage"
                   THEN Returned(l, "failed to decode token response", 0, "")
                   ELSE [l EXCEPT !.pc = "save_open", !.saving = config]]
             /\ file' = IF r.neterr \/ r.status # 200 \/ r.kind = "garbage"
                        THEN NoFile ELSE mr.file
    /\ UNCHANGED <<now, stored, lastWriter, session>>

\* loginAnonymous up to its call of saveAuthConfig, the server answering
\* with one of replies
loginAnonymousFrom(p, replies) ==
    /\ cli[p].pc = "idle"
    /\ \E r \in replies :
         LET cmd == Cmd("login", AuthMethodAnonymous, <<>>, FALSE, TRUE, FALSE)
             mr == makeRequest("POST", "/api/auth/anonymous", FALSE, <<>>, file, now)
             l == Sent(cmd, mr, r, now, file, stored)
             config == tokenConfig(r, now)
         IN  /\ cli' = [cli EXCEPT ![p] =
                   IF r.neterr THEN Returned(l, "failed to authenticate", 0, "")
                   ELSE IF r.status # 200
                   THEN Returned(l, "authentication failed with status", r.status, "")
                   ELSE IF r.kind = "garbage"
                   THEN Returned(l, "failed to decode token response", 0, "")
                   ELSE [l EXCEPT !.pc = "save_open", !.saving = config]]
             /\ file' = mr.file
    /\ UNCHANGED <<now, stored, lastWriter, session>>

loginAnonymous(p) == loginAnonymousFrom(p, AuthReplies(now))

LoginMethods ==
    { AuthMethodGitHubOAuth, AuthMethodGitHubOIDC, AuthMethodAnonymous,
      AuthMethodDNS, AuthMethodHTTP, "bogus" }

\* login whose switch returns nil by default
loginOther_defaultNil(p) ==
    /\ cli[p].pc = "idle"
    /\ \E authMethod \in LoginMethods \ {AuthMethodAnonymous} :
         LET l == [Idle EXCEPT !.cmd = Cmd("login", authMethod, <<>>, FALSE, TRUE, FALSE)]
         IN  cli' = [cli EXCEPT ![p] =
                 IF authMethod \in {AuthMethodGitHubOAuth, AuthMethodGitHubOIDC}
                 THEN Printed(Returned(l, "nil", 0, ""), 0, "not yet implemented")
                 ELSE Returned(l, "nil", 0, "")]
    /\ UNCHANGED <<now, file, stored, lastWriter, session>>

\* login: the switch on authMethod, but for the anonymous case
loginOther(p) ==
    /\ cli[p].pc = "idle"
    /\ \E authMethod \in LoginMethods \ {AuthMethodAnonymous} :
         LET l == [Idle EXCEPT !.cmd = Cmd("login", authMethod, <<>>, FALSE, TRUE, FALSE)]
         IN  cli' = [cli EXCEPT ![p] =
                 IF authMethod \in {AuthMethodGitHubOAuth, AuthMethodGitHubOIDC}
                 THEN Printed(Returned(l, "nil", 0, ""), 0, "not yet implemented")
                 ELSE Returned(l, "unsupported authentication method", 0, "")]
    /\ UNCHANGED <<now, file, stored, lastWriter, session>>

login(p) == loginAnonymous(p) \/ loginOther(p)

\* os.WriteFile, first part: OpenFile(O_WRONLY|O_CREATE|O_TRUNC, 0600)
SaveOpen(p) ==
    /\ cli[p].pc = "save_open"
    /\ IF file.exists /\ ~file.readable
       THEN /\ cli' = [cli EXCEPT ![p] =
                          Returned(@, "failed to save auth config", 0, "")]
            /\ UNCHANGED <<file, stored, session>>
       ELSE /\ cli' = [cli EXCEPT ![p].pc = "save_write", ![p].prev = file,
                                  ![p].saveStarted = TRUE]
            /\ file' = OpenTrunc(file, Perm0600)
            /\ stored' = NoStored
            /\ session' = IF session = "out" THEN "out_dirty" ELSE session
    /\ UNCHANGED <<now, lastWriter>>

\* os.WriteFile, second part: Write of the first n units of the data (all
\* of them unless the write fails) and Close; then the rest of
\* loginAnonymous
SaveWrite(p) ==
    /\ cli[p].pc = "save_write"
    /\ LET data == Marshal(cli[p].saving) IN
       \E n \in 0..Len(data) :
         /\ file' = [file EXCEPT !.data = Overlay(@, SubSeq(data, 1, n))]
         /\ cli' = [cli EXCEPT ![p] =
                IF n = Len(data)
                THEN Printed(Returned(@, "nil", 0, ""), 0, "Successfully authenticated")
                ELSE Returned(@, "failed to save auth config", 0, "")]
         /\ stored' = IF n = Len(data) /\ file'.data = data /\ file'.readable
                      THEN [valid |-> TRUE, config |-> cli[p].saving]
                      ELSE NoStored
         /\ lastWriter' = IF n > 0 THEN p ELSE lastWriter
         /\ session' = IF n = Len(data) THEN "in" ELSE session
    /\ UNCHANGED now

\* the process is interrupted inside saveAuthConfig
Kill(p) ==
    /\ cli[p].pc \in {"save_open", "save_write"}
    /\ cli' = [cli EXCEPT ![p] = Returned(@, "killed", 0, "")]
    /\ UNCHANGED <<now, file, stored, lastWriter, session>>

\* logout
logout(p) ==
    /\ cli[p].pc = "idle"
    /\ \E removed \in BOOLEAN :
         LET c == clearAuthConfig(file, removed)
             l == [Idle EXCEPT !.cmd = Cmd("logout", "", <<>>, FALSE, TRUE, FALSE),
                               !.prev = file]
         IN  /\ file' = c.file
             /\ cli' = [cli EXCEPT ![p] =
                    IF c.err # "nil"
                    THEN Returned(l, "failed to clear authentication", 0, "")
                    ELSE Printed(Returned(l, "nil", 0, ""), 0, "Successfully logged out")]
             /\ stored' = IF c.file # file THEN NoStored ELSE stored
             /\ session' = IF c.err = "nil" THEN "out" ELSE session
    /\ UNCHANGED <<now, lastWriter>>

\* GetServer, the server answering with one of replies
GetServerFrom(p, replies) ==
    /\ cli[p].pc = "idle"
    /\ \E jsonOutput \in BOOLEAN, r \in replies :
         LET cmd == Cmd("GetServer", "", <<>>, FALSE, TRUE, jsonOutput)
             mr == makeRequest("GET", "/v0/servers/{id}", FALSE, <<>>, file, now)
             l == Sent(cmd, mr, r, now, file, stored)
             shown == IF jsonOutput THEN 0 ELSE r.status
             d == decodeDetail(IF r.kind = "detail" THEN r
                               ELSE IF r.kind = "garbage" THEN r
                               ELSE DetailReply(EmptyObject))
         IN  /\ cli' = [cli EXCEPT ![p] =
                   IF r.neterr THEN Returned(l, "get server request failed", 0, "")
                   ELSE IF r.status # 200
                   THEN Printed(Returned(l, "nil", 0, ""), shown, r.kind)
                   ELSE IF ~d.ok
                   THEN Printed(Returned(l, "failed to parse response", 0, ""), shown, "")
                   ELSE [Printed(Returned(l, "nil", 0, ""), shown, r.kind)
                           EXCEPT !.servers = <<d.Server>>]]
             /\ file' = mr.file
    /\ UNCHANGED <<now, stored, lastWriter, session>>

GetServer(p) == GetServerFrom(p, Replies \cup {DetailReply(ListedElem)})

\* PublishServer that sends its request again after a 422 answer
PublishServer_retries(p) ==
    /\ cli[p].pc = "idle"
    /\ \E token \in ExplicitTokens, ioGithub \in BOOLEAN, fileOk \in BOOLEAN,
          r \in Replies :
         LET cmd == Cmd("PublishServer", "", token, ioGithub, fileOk, FALSE)
             mr == makeRequest("POST", "/v0/publish", TRUE, token, file, now)
             l == Sent(cmd, mr, r, now, file, stored)
             l2 == [l EXCEPT !.reqs = <<mr.req, mr.req>>, !.resps = <<r, r>>]
         IN  IF ~fileOk
             THEN /\ cli' = [cli EXCEPT ![p] =
                        Returned([Idle EXCEPT !.cmd = cmd],
                                 "failed to read server file", 0, "")]
                  /\ UNCHANGED file
             ELSE IF ioGithub /\ token = <<>>
             THEN /\ cli' = [cli EXCEPT ![p] =
                        Returned([Idle EXCEPT !.cmd = cmd],
                                 "authentication token is required", 0, "")]
                  /\ UNCHANGED file
             ELSE /\ cli' = [cli EXCEPT ![p] =
                        IF r.neterr THEN Returned(l, "publish request failed", 0, "")
                        ELSE IF r.status = 422
                        THEN Printed(Returned(l2, "nil", 0, ""), r.status, r.kind)
                        ELSE Printed(Returned(l, "nil", 0, ""), r.status, r.kind)]
                  /\ file' = mr.file
    /\ UNCHANGED <<now, stored, lastWriter, session>>

PublishServer(p) ==
    /\ cli[p].pc = "idle"
    /\ \E token \in ExplicitTokens, ioGithub \in BOOLEAN, fileOk \in BOOLEAN,
          r \in Replies :
         LET cmd == Cmd("PublishServer", "", token, ioGithub, fileOk, FALSE)
             mr == makeRequest("POST", "/v0/publish", TRUE, token, file, now)
             l == Sent(cmd, mr, r, now, file, stored)
         IN  IF ~fileOk
             THEN /\ cli' = [cli EXCEPT ![p] =
                        Returned([Idle EXCEPT !.cmd = cmd],
                                 "failed to read server file", 0, "")]
                  /\ UNCHANGED file
             ELSE IF ioGithub /\ token = <<>>
             THEN /\ cli' = [cli EXCEPT ![p] =
                        Returned([Idle EXCEPT !.cmd = cmd],
                                 "authentication token is required", 0, "")]
                  /\ UNCHANGED file
             ELSE /\ cli' = [cli EXCEPT ![p] =
                        IF r.neterr THEN Returned(l, "publish request failed", 0, "")
                        ELSE Printed(Returned(l, "nil", 0, ""), r.status, r.kind)]
                  /\ file' = mr.file
    /\ UNCHANGED <<now, stored, lastWriter, session>>

UpdateServer(p) ==
    /\ cli[p].pc = "idle"
    /\ \E token \in ExplicitTokens, ioGithub \in BOOLEAN, fileOk \in BOOLEAN,
          jsonOutput \in BOOLEAN, r \in Replies :
         LET cmd == Cmd("UpdateServer", "", token, ioGithub, fileOk, jsonOutput)
             mr == makeRequest("PUT", "/v0/servers/{id}", TRUE, token, file, now)
             l == Sent(cmd, mr, r, now, file, stored)
             shown == IF jsonOutput THEN 0 ELSE r.status
         IN  IF ~fileOk
             THEN /\ cli' = [cli EXCEPT ![p] =
                        Returned([Idle EXCEPT !.cmd = cmd],
                                 "failed to read server file", 0, "")]
                  /\ UNCHANGED file
             ELSE IF ioGithub /\ token = <<>>
             THEN /\ cli' = [cli EXCEPT ![p] =
                        Returned([Idle EXCEPT !.cmd = cmd],
                                 "authentication token is required", 0, "")]
                  /\ UNCHANGED file
             ELSE /\ cli' = [cli EXCEPT ![p] =
                        IF r.neterr
                        THEN Returned(l, "update server request failed", 0, "")
                        ELSE IF r.status = 200 /\ ~jsonOutput /\ r.kind # "message"
                        THEN Printed(Returned(l, "failed to parse response", 0, ""),
                                     shown, "")
                        ELSE Printed(Returned(l, "nil", 0, ""), shown, r.kind)]
                  /\ file' = mr.file
    /\ UNCHANGED <<now, stored, lastWriter, session>>

DeleteServer(p) ==
    /\ cli[p].pc = "idle"
    /\ \E token \in ExplicitTokens, jsonOutput \in BOOLEAN, r \in Replies :
         LET cmd == Cmd("DeleteServer", "", token, FALSE, TRUE, jsonOutput)
             mr == makeRequest("DELETE", "/v0/servers/{id}", FALSE, token, file, now)
             l == Sent(cmd, mr, r, now, file, stored)
         IN  /\ cli' = [cli EXCEPT ![p] =
                   IF r.neterr THEN Returned(l, "delete server request failed", 0, "")
                   ELSE IF r.status = 404
                   THEN Returned(l, "server not found", 0, "")
                   ELSE IF r.status \notin {200, 204}
                   THEN Returned(l, "delete server failed with status",
                                 r.status, r.kind)
                   ELSE Printed(Returned(l, "nil", 0, ""), 0, "deleted successfully")]
             /\ file' = mr.file
    /\ UNCHANGED <<now, stored, lastWriter, session>>

Health(p) ==
    /\ cli[p].pc = "idle"
    /\ \E r \in Replies :
         LET cmd == Cmd("Health", "", <<>>, FALSE, TRUE, FALSE)
             mr == makeRequest("GET", "/v0/health", FALSE, <<>>, file, now)
             l == Sent(cmd, mr, r, now, file, stored)
         IN  /\ cli' = [cli EXCEPT ![p] =
                   IF r.neterr THEN Returned(l, "health request failed", 0, "")
                   ELSE IF r.status = 200 /\ r.kind = "garbage"
                   THEN Printed(Returned(l, "failed to parse response", 0, ""),
                                r.status, "")
                   ELSE Printed(Returned(l, "nil", 0, ""), r.status, r.kind)]
             /\ file' = mr.file
    /\ UNCHANGED <<now, stored, lastWriter, session>>

\* ListServers, the server answering the list request with one of replies
\* and each detail request with one of detailReplies
ListServersFrom(p, replies, detailReplies) ==
    /\ cli[p].pc = "idle"
    /\ \E jsonOutput \in BOOLEAN, detailed \in BOOLEAN, r \in replies :
         LET cmd == Cmd("ListServers", "", <<>>, FALSE, TRUE, jsonOutput)
             mr == makeRequest("GET", "/v0/servers", FALSE, <<>>, file, now)
             l == [Sent(cmd, mr, r, now, file, stored) EXCEPT !.detailed = detailed]
             shown == IF jsonOutput THEN 0 ELSE r.status
             servers == decodeServers(IF r.kind = "servers" THEN r.body ELSE <<>>)
         IN  /\ file' = mr.file
             /\ IF r.neterr
                THEN cli' = [cli EXCEPT ![p] =
                                Returned(l, "list servers request failed", 0, "")]
                ELSE IF r.status # 200
                THEN cli' = [cli EXCEPT ![p] =
                                Printed(Returned(l, "nil", 0, ""), shown, r.kind)]
                ELSE IF r.kind = "garbage"
                THEN cli' = [cli EXCEPT ![p] =
                                Printed(Returned(l, "failed to parse response", 0, ""),
                                        shown, "")]
                ELSE IF detailed /\ jsonOutput
                THEN \E rs \in [1..Len(servers) -> detailReplies] :
                       LET d == fetchDetails(servers, rs, 1, <<>>)
                           dreq(i) ==
                             makeRequest("GET", "/v0/servers/" \o servers[i].ID,
                                         FALSE, <<>>, file, now).req
                           ld == [l EXCEPT
                                    !.reqs = @ \o [i \in 1..d.n |-> dreq(i)],
                                    !.resps = @ \o [i \in 1..d.n |-> rs[i]]]
                       IN  cli' = [cli EXCEPT ![p] =
                             IF d.err # "nil" THEN Returned(ld, d.err, 0, "")
                             ELSE [Printed(Returned(ld, "nil", 0, ""), shown, "servers")
                                     EXCEPT !.servers = d.out]]
                ELSE cli' = [cli EXCEPT ![p] =
                        [Printed(Returned(l, "nil", 0, ""), shown, "servers")
                           EXCEPT !.servers = servers]]
    /\ UNCHANGED <<now, stored, lastWriter, session>>

ListServers(p) ==
    ListServersFrom(p, Replies \cup {ListReply(<<ListedElem>>)},
                    { Reply(TRUE, 0, "none", <<>>, 0),
                      Reply(FALSE, 404, "error", <<>>, 0),
                      DetailReply(ListedElem) })

\* the process ends (os.Exit, log.Fatalf or the return of main)
Exit(p) ==
    /\ cli[p].pc = "done"
    /\ cli' = [cli EXCEPT ![p] = Idle]
    /\ UNCHANGED <<now, file, stored, lastWriter, session>>

\* the clock
Tick ==
    /\ now + TickStep <= MaxNow
    /\ now' = now + TickStep
    /\ UNCHANGED <<file, cli, stored, lastWriter, session>>

\* the user takes the permissions of the credential file away
Chmod ==
    /\ file.exists /\ file.readable
    /\ file' = [file EXCEPT !.readable = FALSE]
    /\ stored' = NoStored
    /\ UNCHANGED <<now, cli, lastWriter, session>>

\* the user gives group and others read access to the credential file,
\* while no save is under way
ChmodOther ==
    /\ file.exists /\ file.mode = Perm0600
    /\ \A p \in Procs : cli[p].pc \notin {"save_open", "save_write"}
    /\ file' = [file EXCEPT !.mode = Perm0644]
    /\ UNCHANGED <<now, cli, stored, lastWriter, session>>

\* invocations of the CLI one after another
SeqProcs == {1}

Next ==
    \/ \E p \in SeqProcs :
         \/ login(p)
         \/ logout(p)
         \/ Health(p)
         \/ ListServers(p)
         \/ GetServer(p)
         \/ PublishServer(p)
         \/ UpdateServer(p)
         \/ DeleteServer(p)
         \/ SaveOpen(p)
         \/ SaveWrite(p)
         \/ Kill(p)
         \/ Exit(p)
    \/ Tick
    \/ Chmod

Spec == Init /\ [][Next]_vars

\* the two answers the server gives to the two racing logins
RaceReplies ==
    { Reply(FALSE, 200, "token", <<"a">>, 0),
      Reply(FALSE, 200, "token", <<"b", "\\u003c">>, 0) }

\* two invocations of login at the same time, one per process
NextRace ==
    \E p \in Procs :
      \/ loginAnonymousFrom(p, RaceReplies)
      \/ SaveOpen(p)
      \/ SaveWrite(p)

SpecRace == Init /\ [][NextRace]_vars

\* ids and names in the payloads
PayloadIDs == {"", "a"}

MetaValues == {"m"}

\* the registry-metadata maps of wrapper elements
RegistryMetas ==
    {NoMeta} \cup { Meta(k, v) : k \in {"id", "id_num", "serverId"},
                                v \in MetaValues }

\* the _meta maps of legacy elements
LegacyMetas == {NoMeta} \cup { Meta("official", v) : v \in MetaValues }

\* elements in wrapper shape and in legacy flat shape, and a scalar
WrapperElems ==
    { Elem(id, "", TRUE, sid, "w", x, NoMeta) :
        id \in PayloadIDs, sid \in PayloadIDs, x \in RegistryMetas }

LegacyElems ==
    { Elem(id, "l", FALSE, "", "", NoMeta, m) :
        id \in PayloadIDs, m \in LegacyMetas }

Elems == WrapperElems \cup LegacyElems \cup {ScalarElem}

MaxList == 2

\* the "servers" arrays of the list responses
ListPayloads ==
    {<<>>} \cup UNION { [1..n -> Elems] : n \in 1..MaxList }

ListReplies ==
    { Reply(FALSE, 200, "garbage", <<>>, 0), Reply(FALSE, 200, "message", <<>>, 0) }
    \cup { ListReply(b) : b \in ListPayloads }

DetailReplies ==
    { Reply(TRUE, 0, "none", <<>>, 0),
      Reply(FALSE, 404, "error", <<>>, 0),
      Reply(FALSE, 200, "garbage", <<>>, 0),
      DetailReply(Elem("", "", TRUE, "d", "w", NoMeta, NoMeta)) }

\* logins and logouts one after another, on a credential file whose mode
\* the user may change
NextPerm ==
    \/ \E p \in SeqProcs :
         \/ loginAnonymousFrom(p, RaceReplies)
         \/ logout(p)
         \/ SaveOpen(p)
         \/ SaveWrite(p)
         \/ Exit(p)
    \/ ChmodOther

SpecPerm == Init /\ [][NextPerm]_vars

GetReplies ==
    { Reply(FALSE, 200, "garbage", <<>>, 0), Reply(FALSE, 200, "message", <<>>, 0) }
    \cup { DetailReply(e) : e \in Elems }

\* listings and lookups of servers one after another
NextList ==
    \E p \in SeqProcs :
      \/ ListServersFrom(p, ListReplies, DetailReplies)
      \/ GetServerFrom(p, GetReplies)
      \/ Exit(p)

SpecList == Init /\ [][NextList]_vars

(***************************************************************************)
(* Properties                                                              *)
(***************************************************************************)

Mutating(op) == op \in {"PublishServer", "UpdateServer", "DeleteServer"}

IsAuthReq(req) == req.endpoint = "/api/auth/anonymous"

IsMutReq(req) == req.endpoint \in {"/v0/publish", "/v0/servers/{id}"}
                 /\ req.method \in {"POST", "PUT", "DELETE"}

NumAuth(l) == Cardinality({i \in 1..Len(l.reqs) : IsAuthReq(l.reqs[i])})

NumMut(l) == Cardinality({i \in 1..Len(l.reqs) : IsMutReq(l.reqs[i])})

MissingAuth(r) == ~r.neterr /\ r.status = 422 /\ r.kind = "missing_auth"

Rejected(r) == ~r.neterr /\ r.status \notin 200..299

\* an operation that resolved no token: none given, none from the store
NoToken(l) == l.cmd.token = <<>> /\ l.loaded /\ l.config.Token = <<>>

\* the expiration policy of the specification: valid at time t
SpecValid(config, t) == config.ExpiresAt = 0 \/ t <= config.ExpiresAt - Buffer

\* C1: a publish with no token and no valid stored credential whose first
\* POST /v0/publish gets the missing-authorization 422 makes exactly one
\* anonymous-authentication request, stores the credential it gets, sends
\* exactly one more POST /v0/publish with the new token, and ends in success
\* if that request succeeds.
C1_RetryProtocol ==
    \A p \in Procs :
      LET l == cli[p] IN
      (l.pc = "done" /\ l.cmd.op = "PublishServer" /\ NoToken(l)
         /\ Len(l.resps) >= 1 /\ MissingAuth(l.resps[1]))
      => /\ NumAuth(l) = 1
         /\ NumMut(l) = 2
         /\ l.reqs[Len(l.reqs)].authorization # <<>>
         /\ Unmarshal(file.data).ok
         /\ Unmarshal(file.data).config.Token = l.reqs[Len(l.reqs)].authorization
         /\ (~Rejected(l.resps[Len(l.resps)]) /\ ~l.resps[Len(l.resps)].neterr
               => l.err = "nil")

\* C2: an invocation of a mutating operation sends at most two requests to
\* the mutating endpoint and at most one anonymous-authentication request,
\* and when it resolved no token, was answered with the missing-authorization
\* error and its last request was rejected too, it ends in failure with the
\* status and body of that last response.
C2_BoundedRetry ==
    \A p \in Procs :
      LET l == cli[p] IN
      (l.pc = "done" /\ Mutating(l.cmd.op))
      => /\ NumMut(l) <= 2
         /\ NumAuth(l) <= 1
         /\ (NoToken(l) /\ Len(l.resps) >= 1 /\ MissingAuth(l.resps[1])
               /\ Rejected(l.resps[Len(l.resps)])
             => /\ l.err # "nil"
                /\ l.errStatus = l.resps[Len(l.resps)].status
                /\ l.errBody = l.resps[Len(l.resps)].kind)

\* C3: loadAuthConfig returns the stored credential if and only if its
\* expires_at is 0 or now <= expires_at - 60, and the zero-value credential
\* with no error otherwise.
C3_ExpirationPolicy ==
    \A p \in Procs :
      LET l == cli[p]
          r == Unmarshal(l.seenFile.data)
      IN  (l.loaded /\ l.seenFile.exists /\ l.seenFile.readable /\ r.ok)
          => /\ l.loadErr = "nil"
             /\ l.config = IF SpecValid(r.config, l.loadedAt)
                           THEN r.config ELSE ZeroConfig

\* C4: a load that follows the save of a credential that is not expired
\* under the expiration policy returns no error and that credential, equal
\* in every field.
C4_RoundTrip ==
    \A p \in Procs :
      LET l == cli[p] IN
      (l.loaded /\ l.seenStored.valid
         /\ SpecValid(l.seenStored.config, l.loadedAt))
      => l.loadErr = "nil" /\ l.config = l.seenStored.config

\* a load after the save of a live credential whose token needs escaping
C4_Witness ==
    \E p \in Procs :
      LET l == cli[p] IN
      /\ l.loaded /\ l.seenStored.valid
      /\ SpecValid(l.seenStored.config, l.loadedAt)
      /\ l.seenStored.config.Token = <<"b", "<">>
      /\ l.seenStored.config.ExpiresAt > l.loadedAt

\* C5: a request with no explicit token whose load of the credential file
\* failed (file unreadable or unparseable) ends in an error and is not sent.
C5_LoadErrorReported ==
    \A p \in Procs :
      LET l == cli[p] IN
      (l.pc = "done" /\ l.cmd.token = <<>> /\ l.loaded /\ l.loadErr # "nil")
      => l.err # "nil" /\ l.reqs = <<>>

\* C6: when a save over a valid stored credential is interrupted or fails,
\* the file holds the complete previous credential or the complete new one.
C6_AtomicSave ==
    \A p \in SeqProcs :
      LET l == cli[p] IN
      (l.pc = "done" /\ l.saveStarted /\ l.err # "nil"
         /\ l.prev.exists /\ Unmarshal(l.prev.data).ok)
      => /\ file.exists
         /\ file.data \in {l.prev.data, Marshal(l.saving)}

\* C7: after two concurrent saves have both finished, the file holds
\* exactly the credential of the process that wrote last.
C7_LastWriterWins ==
    (\A p \in Procs : cli[p].pc = "done" /\ cli[p].saveStarted /\ cli[p].err = "nil")
    => /\ lastWriter \in Procs
       /\ file.data = Marshal(cli[lastWriter].saving)

\* C8: a mutating operation that got a non-success status ends in an error
\* that carries that status and the raw body.
C8_FailureSurfaced ==
    \A p \in Procs :
      LET l == cli[p] IN
      (l.pc = "done" /\ Mutating(l.cmd.op) /\ Len(l.resps) >= 1
         /\ Rejected(l.resps[Len(l.resps)]))
      => /\ l.err # "nil"
         /\ l.errStatus = l.resps[Len(l.resps)].status
         /\ l.errBody = l.resps[Len(l.resps)].kind

C10_MissingFile ==
    \A p \in Procs :
      LET l == cli[p] IN
      (l.loaded /\ ~l.seenFile.exists)
      => l.config = ZeroConfig /\ l.loadErr = "nil"

\* a load has run with no credential file
C10_Witness ==
    \E p \in Procs : cli[p].loaded /\ ~cli[p].seenFile.exists

\* C11: clearAuthConfig on an absent credential file returns no error and
\* leaves the store empty, so a second logout in a row succeeds as a no-op.
C11_ClearIdempotent ==
    [][ \A p \in Procs :
          (cli[p].pc = "idle" /\ cli'[p].cmd.op = "logout" /\ ~file.exists)
          => /\ cli'[p].pc = "done" /\ cli'[p].err = "nil"
             /\ file' = file
             /\ session' = "out" ]_vars

\* a logout has run when the credential file was absent already
C11_Witness ==
    \E p \in Procs :
      /\ cli[p].pc = "done" /\ cli[p].cmd.op = "logout"
      /\ ~cli[p].prev.exists /\ cli[p].err = "nil"
      /\ ~file.exists /\ session = "out"

\* C12: after a logout has succeeded and until a login completes, a load
\* returns the zero-value credential (with no error while no save has
\* touched the file), every request with no explicit token goes out without
\* an Authorization header, and GetServer sends exactly one GET and hands
\* back the server's answer.
C12_AfterLogout ==
    [][ \A p \in Procs :
          (session \in {"out", "out_dirty"} /\ cli[p].pc = "idle"
             /\ cli'[p].reqs # <<>> /\ cli'[p].cmd.token = <<>>)
          => LET l == cli'[p] IN
             /\ l.loaded /\ l.config = ZeroConfig
             /\ (session = "out" => l.loadErr = "nil")
             /\ \A i \in 1..Len(l.reqs) : l.reqs[i].authorization = <<>>
             /\ (l.cmd.op = "GetServer"
                   => /\ Len(l.reqs) = 1 /\ l.reqs[1].method = "GET"
                      /\ l.pc = "done"
                      /\ (~l.resps[1].neterr
                            /\ ~(l.resps[1].status = 200 /\ l.resps[1].kind = "garbage")
                          => l.err = "nil" /\ l.outBody = l.resps[1].kind)) ]_vars

\* a GetServer after a logout got its answer to a request without
\* Authorization
C12_Witness ==
    \E p \in Procs :
      LET l == cli[p] IN
      /\ session = "out" /\ ~file.exists
      /\ l.pc = "done" /\ l.cmd.op = "GetServer"
      /\ Len(l.reqs) = 1 /\ l.reqs[1].authorization = <<>>
      /\ l.resps[1].status = 200 /\ l.err = "nil"

NonMutating(op) == op \in {"Health", "ListServers", "GetServer"}

C14_TokenResolution ==
    \A p \in Procs :
      LET l == cli[p] IN
      \A i \in 1..Len(l.reqs) :
        /\ l.cmd.token # <<>> => l.reqs[i].authorization = l.cmd.token
        /\ l.cmd.token = <<>>
             => /\ l.loaded
                /\ l.reqs[i].authorization
                     = loadAuthConfig(l.seenFile, l.loadedAt).config.Token

\* an explicit token went out while the store held another, valid one
C14_Witness ==
    \E p \in Procs :
      LET l == cli[p] IN
      /\ l.pc = "done" /\ l.cmd.token = <<"t">>
      /\ stored.valid /\ ~Expired(stored.config, now)
      /\ stored.config.Token \notin {<<>>, <<"t">>}
      /\ Len(l.reqs) = 1 /\ l.reqs[1].authorization = <<"t">>

\* C15: a publish or an update with no --token, made while the store holds
\* a valid credential, sends its request with that credential's token as
\* the bearer token, also when the server's name starts with io.github.
C15_StoredTokenUsed ==
    [][ \A p \in Procs :
          LET l == cli'[p]
              ld == loadAuthConfig(file, now)
          IN  (cli[p].pc = "idle" /\ l.cmd.op \in {"PublishServer", "UpdateServer"}
                 /\ l.cmd.token = <<>> /\ l.cmd.fileOk
                 /\ ld.err = "nil" /\ ld.config.Token # <<>>)
              => /\ Len(l.reqs) = 1
                 /\ l.reqs[1].authorization = ld.config.Token ]_vars

C17_UnimplementedRefused ==
    [][ \A p \in Procs :
          LET l == cli'[p] IN
          (cli[p].pc # "done" /\ l.pc = "done" /\ l.cmd.op = "login")
          => /\ l.cmd.authMethod \in {AuthMethodGitHubOAuth, AuthMethodGitHubOIDC,
                                      AuthMethodDNS, AuthMethodHTTP}
                  => l.err = "unsupported authentication method"
             /\ l.err = "nil"
                  => l.saveStarted /\ Unmarshal(file'.data).ok ]_vars

KnownMethods ==
    { AuthMethodGitHubOAuth, AuthMethodGitHubOIDC, AuthMethodAnonymous,
      AuthMethodDNS, AuthMethodHTTP }

\* C18: a login with a method id that is none of the known ones returns an
\* error at once: no request is sent and the credential file is unchanged.
C18_UnknownMethod ==
    [][ \A p \in Procs :
          LET l == cli'[p] IN
          (cli[p].pc = "idle" /\ l.cmd.op = "login"
             /\ l.cmd.authMethod \notin KnownMethods)
          => /\ l.pc = "done" /\ l.err # "nil"
             /\ l.reqs = <<>>
             /\ file' = file ]_vars

\* a login with an unknown method was refused while a credential was stored
C18_Witness ==
    \E p \in Procs :
      LET l == cli[p] IN
      /\ l.pc = "done" /\ l.cmd.op = "login"
      /\ l.cmd.authMethod \notin KnownMethods
      /\ l.err = "unsupported authentication method" /\ l.reqs = <<>>
      /\ stored.valid

\* a listing that printed the servers of the list response itself
Listed(l) ==
    /\ l.pc = "done" /\ l.cmd.op = "ListServers"
    /\ ~l.resps[1].neterr /\ l.resps[1].status = 200
    /\ l.resps[1].kind = "servers"
    /\ ~(l.detailed /\ l.cmd.jsonOutput)

WrapperShape(elems) ==
    Len(elems) > 0 /\ \A i \in 1..Len(elems) : elems[i].isMap /\ elems[i].hasServer

LegacyShape(elems) ==
    Len(elems) > 0 /\ \A i \in 1..Len(elems) : elems[i].isMap /\ ~elems[i].hasServer

\* C19: of a payload in wrapper shape ListServers lists every element with
\* no error, under the id of its server when that is non-empty, else under
\* the id of its registry-metadata map (the string under "id" or under
\* "serverId"), else under the empty id.
C19_WrapperID ==
    \A p \in Procs :
      LET l == cli[p]
          elems == l.resps[1].body
      IN  (Listed(l) /\ WrapperShape(elems))
          => /\ l.err = "nil"
             /\ Len(l.servers) = Len(elems)
             /\ \A i \in 1..Len(elems) :
                  l.servers[i].ID =
                    IF elems[i].serverID # "" THEN elems[i].serverID
                    ELSE IF elems[i].xreg.kind \in {"id", "serverId"}
                    THEN elems[i].xreg.value
                    ELSE ""

\* C20: of a payload in legacy flat shape ListServers lists every element
\* that has no top-level id but a _meta map with the namespaced registry
\* object holding serverId under that serverId.
C20_LegacyMetaID ==
    \A p \in Procs :
      LET l == cli[p]
          elems == l.resps[1].body
      IN  (Listed(l) /\ LegacyShape(elems))
          => /\ l.err = "nil"
             /\ Len(l.servers) = Len(elems)
             /\ \A i \in 1..Len(elems) :
                  (elems[i].id = "" /\ elems[i].meta.kind = "official")
                  => l.servers[i].ID = elems[i].meta.value

\* a 200 answer whose body is a JSON object in wrapper shape or in legacy
\* flat shape
WellFormed(r) ==
    /\ ~r.neterr /\ r.status = 200
    /\ \/ r.kind = "detail" /\ r.body[1].isMap
       \/ r.kind = "servers" /\ (WrapperShape(r.body) \/ LegacyShape(r.body))

ParseErrors ==
    { "failed to parse response", "failed to parse detail response for server" }

\* C21: ListServers and GetServer return no decode error when every 200
\* response they got had a JSON object in wrapper shape or in legacy flat
\* shape as its body, whichever members the object has or lacks.
C21_DecodeTotal ==
    \A p \in Procs :
      LET l == cli[p] IN
      (l.pc = "done" /\ l.cmd.op \in {"ListServers", "GetServer"}
         /\ \A i \in 1..Len(l.resps) :
              (~l.resps[i].neterr /\ l.resps[i].status = 200)
              => WellFormed(l.resps[i]))
      => l.err \notin ParseErrors

\* a GetServer decoded a legacy object with no id and an unknown member
C21_Witness ==
    \E p \in Procs :
      LET l == cli[p] IN
      /\ l.pc = "done" /\ l.cmd.op = "GetServer"
      /\ WellFormed(l.resps[1])
      /\ ~l.resps[1].body[1].hasServer /\ l.resps[1].body[1].id = ""
      /\ l.resps[1].body[1].meta.kind = "official"
      /\ l.err = "nil" /\ l.servers = <<Server("", "l")>>

\* a 200 answer to a detail request failed, or it is no answer at all
DetailFailed(r) == r.neterr \/ r.status # 200 \/ r.kind = "garbage"

\* C22: a detailed listing sends one detail request per listed server, in
\* list order, and prints one entry per listed server, in list order: the
\* list-level summary for a server whose detail request failed (network
\* error, non-200 status, undecodable body).
C22_DetailDegrades ==
    \A p \in Procs :
      LET l == cli[p]
          base == decodeServers(l.resps[1].body)
      IN  (l.pc = "done" /\ l.cmd.op = "ListServers"
             /\ l.detailed /\ l.cmd.jsonOutput
             /\ ~l.resps[1].neterr /\ l.resps[1].status = 200
             /\ l.resps[1].kind = "servers")
          => /\ Len(l.reqs) = 1 + Len(base)
             /\ \A i \in 1..Len(base) :
                  /\ l.reqs[i + 1].method = "GET"
                  /\ l.reqs[i + 1].endpoint = "/v0/servers/" \o base[i].ID
             /\ l.err = "nil"
             /\ Len(l.servers) = Len(base)
             /\ \A i \in 1..Len(base) :
                  DetailFailed(l.resps[i + 1]) => l.servers[i] = base[i]

\* C26: ListServers lists every element of a list of objects, wrapper or
\* legacy each, with its own name and its own non-empty id, whatever the
\* shape of the first element.
C26_PerElementShape ==
    \A p \in Procs :
      LET l == cli[p]
          elems == l.resps[1].body
      IN  (Listed(l) /\ \A i \in 1..Len(elems) : elems[i].isMap)
          => /\ Len(l.servers) = Len(elems)
             /\ \A i \in 1..Len(elems) :
                  LET e == elems[i]
                      ownID == IF e.hasServer THEN e.serverID ELSE e.id
                      ownName == IF e.hasServer THEN e.serverName ELSE e.name
                  IN  /\ l.servers[i].Name = ownName
                      /\ ownID # "" => l.servers[i].ID = ownID

\* C27: GetServer on a 200 response whose body is a JSON object keeps the
\* name that is present, at top level or under "server": an object with a
\* "server" that has a name but no id, and with no registry metadata,
\* yields a server of that name.
C27_BestEffort ==
    \A p \in Procs :
      LET l == cli[p]
          e == l.resps[1].body[1]
      IN  (l.pc = "done" /\ l.cmd.op = "GetServer"
             /\ ~l.resps[1].neterr /\ l.resps[1].status = 200
             /\ l.resps[1].kind = "detail" /\ e.isMap)
          => /\ l.err = "nil"
             /\ Len(l.servers) = 1
             /\ l.servers[1].Name =
                  IF e.name # "" THEN e.name
                  ELSE IF e.hasServer THEN e.serverName ELSE ""

\* C23: when saveAuthConfig has succeeded the credential file has the
\* owner-only read/write permission 0600, also when the file existed before
\* with another mode.
C23_OwnerOnly ==
    [][ \A p \in Procs :
          (cli[p].pc = "save_write" /\ cli'[p].pc = "done" /\ cli'[p].err = "nil")
          => file'.exists /\ file'.mode = Perm0600 ]_vars

\* C24: a publish, update or delete that resolved a token (the explicit
\* one, or the one of a valid stored credential) and got the
\* missing-authorization answer surfaces that answer: it sends no
\* anonymous-authentication request and no second request, and leaves the
\* credential file as it is.
C24_NoRetryWithToken ==
    [][ \A p \in Procs :
          LET l == cli'[p] IN
          (cli[p].pc = "idle" /\ Mutating(l.cmd.op) /\ Len(l.resps) >= 1
             /\ MissingAuth(l.resps[1]) /\ l.reqs[1].authorization # <<>>)
          => /\ l.pc = "done"
             /\ Len(l.reqs) = 1 /\ NumAuth(l) = 0
             /\ file' = file
             /\ l.outBody = "missing_auth" \/ l.errBody = "missing_auth" ]_vars

\* a publish with a stored token was refused for missing authorization
C24_Witness ==
    \E p \in Procs :
      LET l == cli[p] IN
      /\ l.pc = "done" /\ l.cmd.op = "PublishServer" /\ l.cmd.token = <<>>
      /\ l.seenStored.valid /\ l.reqs[1].authorization = l.seenStored.config.Token
      /\ l.reqs[1].authorization # <<>>
      /\ MissingAuth(l.resps[1]) /\ Len(l.reqs) = 1
      /\ file = l.seenFile

C28_Headers ==
    \A p \in Procs :
      LET l == cli[p] IN
      \A i \in 1..Len(l.reqs) :
        /\ l.reqs[i].contentType <=> l.reqs[i].hasBody
        /\ l.reqs[i].hasBody
             <=> (l.cmd.op \in {"PublishServer", "UpdateServer"})
        /\ l.reqs[i].authorization # <<>>
             <=> (l.cmd.token # <<>> \/ (l.loaded /\ l.config.Token # <<>>))
        /\ l.reqs[i].userAgent = "mcpx-cli/1.0"

\* a request with a body and a stored token went out
C28_Witness ==
    \E p \in Procs :
      LET l == cli[p] IN
      /\ l.pc = "done" /\ l.cmd.op = "UpdateServer" /\ l.cmd.token = <<>>
      /\ Len(l.reqs) = 1 /\ l.reqs[1].contentType
      /\ l.reqs[1].authorization # <<>>
      /\ l.reqs[1].userAgent = "mcpx-cli/1.0"

\* an answer that makes the anonymous login fail: a network error, a status
\* other than 200, a token response that cannot be decoded
LoginFails(r) == r.neterr \/ r.status # 200 \/ r.kind = "garbage"

\* C29: an anonymous login whose request fails returns an error and leaves
\* the credential file as it was, so that a load gives what it gave before.
C29_FailedLoginFrame ==
    [][ \A p \in Procs :
          LET l == cli'[p] IN
          (cli[p].pc = "idle" /\ l.cmd.op = "login"
             /\ l.cmd.authMethod = AuthMethodAnonymous /\ LoginFails(l.resps[1]))
          => /\ l.pc = "done" /\ l.err # "nil"
             /\ file' = file
             /\ loadAuthConfig(file', now') = loadAuthConfig(file, now) ]_vars

\* an anonymous login failed while the store held a live credential, which
\* a load still returns
C29_Witness ==
    \E p \in Procs :
      LET l == cli[p] IN
      /\ l.pc = "done" /\ l.cmd.op = "login"
      /\ l.cmd.authMethod = AuthMethodAnonymous
      /\ LoginFails(l.resps[1]) /\ l.err # "nil"
      /\ stored.valid /\ stored.config.Token # <<>>
      /\ loadAuthConfig(file, now).config = stored.config

\* C30: when an anonymous login reports success, the credential in the file
\* has a non-empty token, whatever body the 200 response had.
C30_TokenNonEmpty ==
    [][ \A p \in Procs :
          LET l == cli'[p] IN
          (cli[p].pc # "done" /\ l.pc = "done" /\ l.cmd.op = "login"
             /\ l.cmd.authMethod = AuthMethodAnonymous /\ l.err = "nil")
          => /\ Unmarshal(file'.data).ok
             /\ Unmarshal(file'.data).config.Token # <<>> ]_vars

====
